---- MODULE Spec2Model ----
(***************************************************************************)
(* DeepSpeedRollingBatch: the adapter between the rolling-batch serving    *)
(* layer and the DeepSpeed rolling-batch generation engine.                *)
(*                                                                         *)
(* Python values are encoded so that conversions stay observable:          *)
(*   parameter values  [t |-> type, n |-> number]                          *)
(*       "int" n, "bool" n (0/1), "float" n tenths (25 is 2.5),            *)
(*       "str" n (the decimal string of n), "text" (a non-numeric string), *)
(*       "list" n (list number n, 0 is the empty list), "none" (None)      *)
(*   texts             [t |-> "str" | "none", s |-> string]                *)
(*                                                                         *)
(* The base abstraction (RollingBatch, Request, stop_on_any_exception) is  *)
(* in rolling_batch.py; its operators here follow its description in the   *)
(* specification: get_new_requests, set_next_token, postprocess_results    *)
(* (Results, StillActive) and stop_on_any_exception (set_error).           *)
(*                                                                         *)
(* Two specifications:                                                     *)
(*   Spec     inference and reset calls against an engine that answers     *)
(*            every prefill_batch / generate_token call of a behaviour     *)
(*            with the same list of Generations, stub_generations;         *)
(*   SpecPre  direct preprocess_requests and reset calls on the requests   *)
(*            of requests_pool.                                            *)
(* tick and call record the last call and what it returned.                *)
(***************************************************************************)
EXTENDS Integers, Sequences, FiniteSets, TLC

\* ------------------------------------------------------------------ bounds
MaxRequests == 2    \* request ids handed out between two resets
MaxNew      == 1    \* requests arriving in one inference call
MaxGens     == 2    \* Generations the engine returns in one call
MaxList     == 2    \* requests in one direct preprocess_requests call
MaxBatchId  == 3    \* cap on batch_id_counter

\* ----------------------------------------------------------- Python values
IntV(n)   == [t |-> "int",   n |-> n]
FloatV(n) == [t |-> "float", n |-> n]
BoolV(n)  == [t |-> "bool",  n |-> n]
StrV(n)   == [t |-> "str",   n |-> n]
TextV     == [t |-> "text",  n |-> 0]
ListV(n)  == [t |-> "list",  n |-> n]
NoneV     == [t |-> "none",  n |-> 0]

Str(s)   == [t |-> "str",  s |-> s]
NoText   == [t |-> "none", s |-> ""]

\* Python's ==  on the encoded values: numbers compare by value across
\* int, float and bool; everything else compares within its own type.
IsNum(v) == v.t \in {"int", "float", "bool"}
Tenths(v) == IF v.t = "float" THEN v.n ELSE 10 * v.n
PyEq(a, b) ==
    IF IsNum(a) /\ IsNum(b) THEN Tenths(a) = Tenths(b)
    ELSE a.t = b.t /\ a.n = b.n

\* int(x): floats truncate toward zero, decimal strings parse, bools count;
\* None, lists and non-numeric strings raise.
CanInt(v) == v.t \in {"int", "bool", "float", "str"}
Trunc10(n) == IF n >= 0 THEN n \div 10 ELSE -((-n) \div 10)
PyIntFloor(v) == IF v.t = "float" THEN IntV(v.n \div 10) ELSE IntV(v.n)
PyInt(v) == IF v.t = "float" THEN IntV(Trunc10(v.n)) ELSE IntV(v.n)

\* dict.get(key, default)
Get(param, key, default) == IF key \in DOMAIN param THEN param[key] ELSE default

\* ------------------------------------------------------ preprocess_requests
NextTokenChooserParameters(param) ==
    [temperature        |-> Get(param, "temperature", FloatV(10)),
     repetition_penalty |-> Get(param, "repetition_penalty", FloatV(10)),
     top_k              |-> Get(param, "top_k", IntV(0)),
     top_p              |-> Get(param, "top_p", FloatV(10)),
     typical_p          |-> Get(param, "typical_p", FloatV(10)),
     do_sample          |-> Get(param, "do_sample", BoolV(0)),
     seed               |-> PyInt(Get(param, "seed", IntV(0)))]

StoppingCriteriaParameters(param) ==
    [stop_sequences |-> Get(param, "stop_sequences", ListV(0)),
     max_new_tokens |-> Get(param, "max_new_tokens", IntV(30))]

\* Request(id=..., inputs=..., parameters=..., stopping_parameters=...) and
\* the optional request.truncate assignment
NativeRequest(r) ==
    LET truncate == Get(r.parameters, "truncate", NoneV)
    IN  [id                  |-> r.id,
         inputs              |-> r.input_text,
         parameters          |-> NextTokenChooserParameters(r.parameters),
         stopping_parameters |-> StoppingCriteriaParameters(r.parameters),
         has_truncate        |-> truncate # NoneV,
         truncate            |-> truncate]

\* the only statement of the loop that can raise on the encoded values:
\* int(param.get("seed", 0))
RequestRaises(r) == ~CanInt(Get(r.parameters, "seed", IntV(0)))

NoBatch == [is_none |-> TRUE, id |-> -1, requests |-> <<>>, size |-> -1]
Batch(id, requests, size) ==
    [is_none |-> FALSE, id |-> id, requests |-> requests, size |-> size]

\* preprocess_requests(requests) on an adapter whose batch_id_counter is
\* counter: whether it raised, what it returned, and the counter afterwards
preprocess_requests_always_batch(requests, counter) ==
    IF \E i \in 1..Len(requests) : RequestRaises(requests[i])
    THEN [raised |-> TRUE, batch |-> NoBatch, counter |-> counter]
    ELSE LET preprocessed_requests ==
                 [i \in 1..Len(requests) |-> NativeRequest(requests[i])]
         IN  [raised  |-> FALSE,
              batch   |-> Batch(counter, preprocessed_requests,
                                Len(preprocessed_requests)),
              counter |-> counter + 1]
preprocess_requests(requests, counter) ==
    IF \E i \in 1..Len(requests) : RequestRaises(requests[i])
    THEN [raised |-> TRUE, batch |-> NoBatch, counter |-> counter]
    ELSE LET preprocessed_requests ==
                 [i \in 1..Len(requests) |-> NativeRequest(requests[i])]
         IN  IF Len(preprocessed_requests) > 0
             THEN [raised  |-> FALSE,
                   batch   |-> Batch(counter, preprocessed_requests,
                                     Len(preprocessed_requests)),
                   counter |-> counter + 1]
             ELSE [raised |-> FALSE, batch |-> NoBatch, counter |-> counter]

\* ------------------------------------------------- base abstraction (Request)
Request(id, input_text, parameters) ==
    [id |-> id, input_text |-> input_text, parameters |-> parameters,
     next_token |-> NoText, last_token |-> FALSE, error |-> FALSE]

\* request.set_next_token(text, output_formatter, last_token=...)
set_next_token(request, text, last_token) ==
    [request EXCEPT !.next_token = Str(text), !.last_token = last_token]

\* the terminal error the exception decorator puts on a request
set_error(request) ==
    [request EXCEPT !.next_token = Str(""), !.last_token = TRUE,
                    !.error = TRUE]

\* get_new_requests(input_data, parameters, len(input_data)): the inputs
\* beyond the requests already in flight become new active requests
get_new_requests(active, counter, inputs) ==
    LET new == [i \in 1..Len(inputs) |->
                   Request(counter + i - 1, inputs[i].input_text,
                           inputs[i].parameters)]
    IN  [new_requests |-> new, active |-> active \o new,
         counter |-> counter + Len(new)]

\* postprocess_results(): one result per active request, then the finished
\* requests leave the active collection
Results(active) ==
    [i \in 1..Len(active) |->
        [id |-> active[i].id, data |-> active[i].next_token,
         last |-> active[i].last_token, error |-> active[i].error]]
StillActive(active) == SelectSeq(active, LAMBDA r : ~r.last_token)

\* ------------------------------------------------------ _prefill_and_decode
Generation(request_id, token_text, token_is_special, generated_text) ==
    [request_id |-> request_id, token_text |-> token_text,
     token_is_special |-> token_is_special, generated_text |-> generated_text]

filtered_gens(request, generations) ==
    SelectSeq(generations, LAMBDA g : g.request_id = request.id)

\* is_last_token = generation.generated_text is not None
is_last_token_truthy(generation) ==
    generation.generated_text.t = "str" /\ generation.generated_text.s # ""
is_last_token(generation) == generation.generated_text # NoText

\* "" if generation.token_is_special else generation.token_text
token_text_raw(generation) == generation.token_text
token_text(generation) ==
    IF generation.token_is_special THEN "" ELSE generation.token_text

\* the arguments of the set_next_token call the loop makes for one request
next_token_call_finish_unmatched(request, generations) ==
    LET gens == filtered_gens(request, generations)
    IN  IF Len(gens) > 0
        THEN [id |-> request.id, text |-> token_text(gens[1]),
              last |-> is_last_token(gens[1])]
        ELSE [id |-> request.id, text |-> "", last |-> TRUE]
next_token_call(request, generations) ==
    LET gens == filtered_gens(request, generations)
    IN  IF Len(gens) > 0
        THEN [id |-> request.id, text |-> token_text(gens[1]),
              last |-> is_last_token(gens[1])]
        ELSE [id |-> request.id, text |-> "", last |-> FALSE]

NoFault == [at |-> "none", k |-> 0]

\* which engine operation the cycle invokes
engine_call_decode_too(new_batch) ==
    IF ~new_batch.is_none
    THEN <<[op |-> "prefill_batch", batch |-> new_batch],
           [op |-> "generate_token", batch |-> NoBatch]>>
    ELSE <<[op |-> "generate_token", batch |-> NoBatch]>>
engine_call(new_batch) ==
    IF ~new_batch.is_none
    THEN <<[op |-> "prefill_batch", batch |-> new_batch]>>
    ELSE <<[op |-> "generate_token", batch |-> NoBatch]>>

\* _prefill_and_decode(new_batch) over the active requests `active`, when the
\* engine answers with `generations` (and `failed` on prefill); fault says
\* which call raises, if any
prefill_and_decode_reversed(active, new_batch, generations, failed, fault, errors, engine) ==
    LET calls  == engine_call(new_batch)
        n      == IF fault.at = "set_next_token" THEN fault.k - 1
                  ELSE Len(active)
        tok(i) == next_token_call(active[Len(active) + 1 - i], generations)
    IN  IF fault.at = "engine"
        THEN [raised |-> TRUE, engine_calls |-> calls, active |-> active,
              error_requests |-> errors, engine_loaded |-> engine,
              generations |-> <<>>, token_calls |-> <<>>]
        ELSE [raised |-> fault.at = "set_next_token",
              engine_calls |-> calls,
              active |-> [i \in 1..Len(active) |->
                           IF Len(active) + 1 - i <= n
                           THEN set_next_token(active[i],
                                    tok(Len(active) + 1 - i).text,
                                    tok(Len(active) + 1 - i).last)
                           ELSE active[i]],
              error_requests |-> IF new_batch.is_none THEN errors ELSE failed,
              engine_loaded |-> engine \/ ~new_batch.is_none,
              generations |-> generations,
              token_calls |-> [i \in 1..n |-> tok(i)]]
prefill_and_decode(active, new_batch, generations, failed, fault, errors, engine) ==
    LET calls  == engine_call(new_batch)
        n      == IF fault.at = "set_next_token" THEN fault.k - 1
                  ELSE Len(active)
        tok(i) == next_token_call(active[i], generations)
    IN  IF fault.at = "engine"
        THEN [raised |-> TRUE, engine_calls |-> calls, active |-> active,
              error_requests |-> errors, engine_loaded |-> engine,
              generations |-> <<>>, token_calls |-> <<>>]
        ELSE [raised |-> fault.at = "set_next_token",
              engine_calls |-> calls,
              active |-> [i \in 1..Len(active) |->
                           IF i <= n
                           THEN set_next_token(active[i], tok(i).text,
                                               tok(i).last)
                           ELSE active[i]],
              error_requests |-> IF new_batch.is_none THEN errors ELSE failed,
              engine_loaded |-> engine \/ ~new_batch.is_none,
              generations |-> generations,
              token_calls |-> [i \in 1..n |-> tok(i)]]

\* ------------------------------------------------------------------- state
VARIABLES
    active_requests,    \* self.active_requests, in insertion order
    req_id_counter,     \* self.req_id_counter of the base abstraction
    batch_id_counter,   \* self.batch_id_counter
    error_requests,     \* self.error_requests: ids the last prefill failed
    engine_loaded,      \* self.rolling_batch.rolling_batch holds a batch
    batches_returned,   \* batches preprocess_requests returned since reset
    tick,               \* what the last inference call did and returned
    call,               \* the last direct preprocess_requests call
    stub_generations,   \* the Generations the engine answers a call with
    requests_pool       \* the requests direct preprocess_requests calls use

vars == <<active_requests, req_id_counter, batch_id_counter, error_requests,
          engine_loaded, batches_returned, tick, call, stub_generations,
          requests_pool>>

Ids(reqs) == [i \in 1..Len(reqs) |-> reqs[i].id]
Range(f) == {f[i] : i \in DOMAIN f}
SeqsUpTo(S, n) == UNION {[1..k -> S] : k \in 0..n}

\* ------------------------------------------------------------ input domains
EmptyParam == [k \in {} |-> NoneV]
AllParam ==
    ("temperature" :> FloatV(7)) @@ ("repetition_penalty" :> FloatV(12)) @@
    ("top_k" :> IntV(5)) @@ ("top_p" :> FloatV(9)) @@
    ("typical_p" :> FloatV(8)) @@ ("do_sample" :> BoolV(1)) @@
    ("seed" :> IntV(42)) @@ ("stop_sequences" :> ListV(1)) @@
    ("max_new_tokens" :> IntV(64)) @@ ("truncate" :> IntV(16))
BadSeedParam == ("seed" :> TextV)
ParamChoices ==
    {EmptyParam, AllParam, BadSeedParam,
     ("seed" :> StrV(7)), ("seed" :> FloatV(25)), ("seed" :> FloatV(-25)),
     ("seed" :> NoneV) @@ ("top_k" :> IntV(3)),
     ("truncate" :> NoneV) @@ ("top_p" :> FloatV(5)),
     ("temperature" :> NoneV) @@ ("do_sample" :> BoolV(1)),
     ("stop_sequences" :> ListV(2)) @@ ("max_new_tokens" :> IntV(1)) @@
         ("typical_p" :> FloatV(3)) @@ ("repetition_penalty" :> FloatV(11))}

\* requests handed directly to preprocess_requests
RequestChoices ==
    {Request(0, "x", param) : param \in ParamChoices}
    \cup {Request(1, "y", param) :
              param \in {EmptyParam, AllParam, BadSeedParam}}

\* what arrives with one inference call
InputChoices ==
    {[input_text |-> "x", parameters |-> param] :
        param \in {EmptyParam, BadSeedParam}}

\* what the engine may answer: Generations for the first two request ids
StubIds == {0, 1}
GenerationChoices ==
    {Generation(id, v[1], v[2], v[3]) :
        id \in StubIds,
        v \in {<<"a", FALSE, NoText>>, <<"b", TRUE, NoText>>,
               <<"a", FALSE, Str("")>>, <<"b", TRUE, Str("ab")>>}}

\* the call that raises: none, get_new_requests, the engine operation, or
\* the k-th set_next_token of the loop (preprocess_requests raises by itself,
\* on a seed that int() rejects)
FaultChoices ==
    {NoFault, [at |-> "get_new_requests", k |-> 0], [at |-> "engine", k |-> 0]}
    \cup {[at |-> "set_next_token", k |-> k] : k \in 1..MaxRequests}

\* --------------------------------------------------------------- inference
NoTick(op) ==
    [op |-> op, raised |-> FALSE, raised_in |-> "none",
     propagated |-> FALSE, before |-> <<>>,
     at_raise |-> <<>>, new_ids |-> <<>>, ran |-> FALSE,
     engine_calls |-> <<>>, generations |-> <<>>, failed |-> {},
     joined |-> <<>>, token_calls |-> <<>>, results |-> <<>>]
NoCall ==
    [op |-> "none", requests |-> <<>>, raised |-> FALSE, batch |-> NoBatch,
     counter_before |-> 0]

\* if new_batch or len(self.active_requests) > 0
should_run_new_only(new_batch, active) == ~new_batch.is_none
should_run(new_batch, active) == ~new_batch.is_none \/ Len(active) > 0

\* the body of inference up to the point where it returns or raises
inference_body(inputs, failed, fault) ==
    LET start == [raised |-> FALSE, raised_in |-> "none",
                  active |-> active_requests,
                  req_id_counter |-> req_id_counter,
                  batch_id_counter |-> batch_id_counter,
                  error_requests |-> error_requests,
                  engine_loaded |-> engine_loaded,
                  new_ids |-> <<>>, new_batch |-> NoBatch, ran |-> FALSE,
                  engine_calls |-> <<>>, generations |-> <<>>,
                  joined |-> <<>>, token_calls |-> <<>>]
    IN  IF fault.at = "get_new_requests"
        THEN [start EXCEPT !.raised = TRUE,
                           !.raised_in = "get_new_requests"]
        ELSE
        LET g == get_new_requests(active_requests, req_id_counter, inputs)
            p == preprocess_requests(g.new_requests, batch_id_counter)
            got == [start EXCEPT !.active = g.active,
                                 !.req_id_counter = g.counter,
                                 !.new_ids = Ids(g.new_requests)]
        IN  IF p.raised
            THEN [got EXCEPT !.raised = TRUE,
                             !.raised_in = "preprocess_requests"]
            ELSE
            LET pre == [got EXCEPT !.new_batch = p.batch,
                                   !.batch_id_counter = p.counter]
            IN  IF should_run(p.batch, g.active)
                THEN LET d == prefill_and_decode(g.active, p.batch,
                                  stub_generations, failed, fault,
                                  error_requests, engine_loaded)
                     IN  [pre EXCEPT !.raised = d.raised,
                                     !.raised_in = IF d.raised THEN fault.at
                                                   ELSE "none",
                                     !.active = d.active,
                                     !.error_requests = d.error_requests,
                                     !.engine_loaded = d.engine_loaded,
                                     !.ran = TRUE,
                                     !.engine_calls = d.engine_calls,
                                     !.generations = d.generations,
                                     !.joined = Ids(g.active),
                                     !.token_calls = d.token_calls]
                ELSE pre

\* @stop_on_any_exception: what the caller of inference gets
stop_on_any_exception(o) ==
    IF o.raised
    THEN [propagated |-> FALSE,
          results |-> Results([i \in 1..Len(o.active) |-> set_error(o.active[i])]),
          active |-> <<>>]
    ELSE [propagated |-> FALSE, results |-> Results(o.active),
          active |-> StillActive(o.active)]

inference_undecorated(o) ==
    IF o.raised
    THEN [propagated |-> TRUE, results |-> <<>>, active |-> o.active]
    ELSE [propagated |-> FALSE, results |-> Results(o.active),
          active |-> StillActive(o.active)]
inference(o) == stop_on_any_exception(o)

Inference(inputs, failed, fault) ==
    /\ req_id_counter + Len(inputs) <= MaxRequests
    /\ Len(inputs) > 0 => batch_id_counter < MaxBatchId
    \* the inputs that cannot matter are fixed to one value
    /\ fault.at = "get_new_requests" => inputs = <<>> /\ failed = {}
    /\ \E o \in {inference_body(inputs, failed, fault)} :
       \E r \in {inference(o)} :
        /\ fault.at = "engine" => Len(o.engine_calls) > 0
        /\ fault.at = "set_next_token" =>
               o.ran /\ fault.k \in 1..Len(o.joined)
        /\ failed \subseteq Range(o.new_ids)
        /\ (~o.ran \/ fault.at # "none" \/ o.new_batch.is_none) => failed = {}
        /\ active_requests' = r.active
        /\ req_id_counter' = o.req_id_counter
        /\ batch_id_counter' = o.batch_id_counter
        /\ error_requests' = o.error_requests
        /\ engine_loaded' = o.engine_loaded
        /\ batches_returned' =
               IF o.new_batch.is_none THEN batches_returned
               ELSE batches_returned + 1
        /\ tick' = [op |-> "inference", raised |-> o.raised,
                    raised_in |-> o.raised_in,
                    propagated |-> r.propagated,
                    before |-> Ids(active_requests),
                    at_raise |-> IF o.raised THEN Ids(o.active) ELSE <<>>,
                    new_ids |-> o.new_ids,
                    ran |-> o.ran, engine_calls |-> o.engine_calls,
                    generations |-> o.generations, failed |-> failed,
                    joined |-> o.joined, token_calls |-> o.token_calls,
                    results |-> r.results]
        /\ call' = NoCall
        /\ UNCHANGED <<stub_generations, requests_pool>>

\* reset()
Reset_keeps_counter ==
    /\ engine_loaded' = FALSE
    /\ batch_id_counter' = batch_id_counter
    /\ active_requests' = <<>>
    /\ req_id_counter' = 0
    /\ batches_returned' = 0
    /\ tick' = NoTick("reset")
    /\ call' = NoCall
    /\ UNCHANGED <<error_requests, stub_generations, requests_pool>>
Reset ==
    /\ engine_loaded' = FALSE
    /\ batch_id_counter' = 0
    /\ active_requests' = <<>>
    /\ req_id_counter' = 0
    /\ batches_returned' = 0
    /\ tick' = NoTick("reset")
    /\ call' = NoCall
    /\ UNCHANGED <<error_requests, stub_generations, requests_pool>>

\* a direct call of preprocess_requests(requests)
PreprocessRequests(requests) ==
    LET p == preprocess_requests(requests, batch_id_counter)
    IN  /\ batch_id_counter < MaxBatchId
        /\ batch_id_counter' = p.counter
        /\ batches_returned' =
               IF p.raised \/ p.batch.is_none THEN batches_returned
               ELSE batches_returned + 1
        /\ call' = [op |-> "preprocess_requests", requests |-> requests,
                    raised |-> p.raised, batch |-> p.batch,
                    counter_before |-> batch_id_counter]
        /\ tick' = NoTick("preprocess_requests")
        /\ UNCHANGED <<active_requests, req_id_counter, error_requests,
                       engine_loaded, stub_generations, requests_pool>>

Start ==
    /\ active_requests = <<>>
    /\ req_id_counter = 0
    /\ batch_id_counter = 0
    /\ error_requests = {}
    /\ engine_loaded = FALSE
    /\ batches_returned = 0
    /\ tick = NoTick("init")
    /\ call = NoCall

\* the adapter under inference and reset calls, against an engine that
\* answers every call with stub_generations
Init ==
    /\ Start
    /\ stub_generations \in SeqsUpTo(GenerationChoices, MaxGens)
    /\ requests_pool = <<>>

\* one inference call: what arrives, which call (if any) raises, and which
\* of the new requests (at most one, in a cycle where nothing raises) the
\* engine reports as failed in prefill
Tick ==
    \E inputs \in SeqsUpTo(InputChoices, MaxNew) :
      \E fault \in FaultChoices :
        /\ fault.k <= Len(active_requests) + Len(inputs)
        /\ \E failed \in {{}} \cup
                   {{id} : id \in IF fault = NoFault
                                  THEN req_id_counter ..
                                       (req_id_counter + Len(inputs) - 1)
                                  ELSE {}} :
               Inference(inputs, failed, fault)

Next == Tick \/ Reset
Spec == Init /\ [][Next]_vars

\* the adapter under direct preprocess_requests and reset calls; each call
\* passes a run of consecutive requests of requests_pool (an empty run too)
InitPre ==
    /\ Start
    /\ stub_generations = <<>>
    /\ requests_pool \in SeqsUpTo(RequestChoices, MaxList)

Preprocess ==
    \E i \in 1..(Len(requests_pool) + 1), j \in 0..Len(requests_pool) :
        /\ j >= i - 1
        /\ PreprocessRequests(SubSeq(requests_pool, i, j))
NextPre == Preprocess \/ Reset
SpecPre == InitPre /\ [][NextPre]_vars

\* ------------------------------------------------------------------ claims
Ran == tick.op = "inference" /\ tick.ran
Completed == tick.op = "inference" /\ ~tick.raised
Returned == call.op = "preprocess_requests" /\ ~call.raised
HasMatch(id, gens) == \E k \in 1..Len(gens) : gens[k].request_id = id
FirstMatch(id, gens) ==
    gens[CHOOSE k \in 1..Len(gens) :
            /\ gens[k].request_id = id
            /\ \A m \in 1..(k - 1) : gens[m].request_id # id]
ResultOf(id) ==
    {tick.results[j] : j \in {j \in 1..Len(tick.results) :
                                 tick.results[j].id = id}}

\* C1: when a step of an inference call raises, the exception does not leave
\* inference, every request active at that moment (those active before the
\* call among them) is reported with a terminal error and is gone from the
\* active collection, and another inference call can be made.
C1_ExceptionContained ==
    (tick.op = "inference" /\ tick.raised) =>
        /\ ~tick.propagated
        /\ \A i \in 1..Len(tick.before) : tick.before[i] \in Range(tick.at_raise)
        /\ \A i \in 1..Len(tick.at_raise) :
              /\ ResultOf(tick.at_raise[i]) # {}
              /\ \A res \in ResultOf(tick.at_raise[i]) : res.error /\ res.last
        /\ \A i \in 1..Len(active_requests) :
              active_requests[i].id \notin Range(tick.at_raise)
        /\ ENABLED Inference(<<>>, {}, NoFault)
C1_Witness ==
    /\ tick.op = "inference" /\ tick.raised_in = "engine"
    /\ Len(tick.before) > 0 /\ Len(tick.new_ids) > 0
    /\ tick.engine_calls[1].op = "prefill_batch"
    /\ Len(tick.results) = Len(tick.before) + Len(tick.new_ids)

\* C2: the k-th batch preprocess_requests returns since construction or the
\* last reset has id k-1; a call with an empty list leaves batch_id_counter
\* unchanged; reset sets it to 0.
C2_BatchIds ==
    /\ batch_id_counter = batches_returned
    /\ (Returned /\ ~call.batch.is_none) =>
           /\ call.batch.id = batches_returned - 1
           /\ batch_id_counter = call.counter_before + 1
    /\ (call.op = "preprocess_requests" /\ call.requests = <<>>) =>
           batch_id_counter = call.counter_before
    /\ tick.op = "reset" => batch_id_counter = 0
C2_Witness ==
    /\ Returned /\ ~call.batch.is_none
    /\ call.batch.id = 2 /\ batch_id_counter = 3

\* C3: preprocess_requests returns None exactly when the request list is
\* empty; a batch it returns has one native request per input request, in
\* input order with the same ids, and its size is that number, at least 1.
C3_NoEmptyBatch ==
    Returned =>
        /\ call.batch.is_none <=> call.requests = <<>>
        /\ ~call.batch.is_none =>
              /\ call.batch.size = Len(call.requests)
              /\ call.batch.size >= 1
              /\ Len(call.batch.requests) = Len(call.requests)
              /\ \A i \in 1..Len(call.requests) :
                    call.batch.requests[i].id = call.requests[i].id
C3_Witness ==
    /\ Returned /\ call.batch.size = 2
    /\ call.batch.requests[1].id = 1 /\ call.batch.requests[2].id = 0

\* C4: a cycle that gets as far as the engine invokes prefill exactly once,
\* with the new batch, and no decode step when new requests arrived (other
\* requests active or not); it invokes generate_token exactly once and no
\* prefill when nothing arrived and a request is active; with neither, no
\* engine operation is invoked and no request receives a token.
C4_OneEngineCall ==
    (tick.op = "inference"
        /\ tick.raised_in \notin {"get_new_requests", "preprocess_requests"}) =>
        /\ Len(tick.new_ids) > 0 =>
              /\ Len(tick.engine_calls) = 1
              /\ tick.engine_calls[1].op = "prefill_batch"
              /\ ~tick.engine_calls[1].batch.is_none
              /\ tick.engine_calls[1].batch.id = batches_returned - 1
              /\ tick.engine_calls[1].batch.size = Len(tick.new_ids)
              /\ Ids(tick.engine_calls[1].batch.requests) = tick.new_ids
        /\ (Len(tick.new_ids) = 0 /\ Len(tick.before) > 0) =>
              /\ Len(tick.engine_calls) = 1
              /\ tick.engine_calls[1].op = "generate_token"
        /\ (Len(tick.new_ids) = 0 /\ Len(tick.before) = 0) =>
              /\ tick.engine_calls = <<>>
              /\ tick.token_calls = <<>>
              /\ tick.results = <<>>
C4_Witness ==
    /\ Completed /\ Len(tick.new_ids) > 0 /\ Len(tick.before) > 0
    /\ Len(tick.engine_calls) = 1
    /\ tick.engine_calls[1].op = "prefill_batch"

\* C5: a request whose id is in the failed-request-ids list prefill returned
\* is reported as failed by that inference call and is not left open in the
\* active collection.
C5_FailedSurfaced ==
    Completed =>
        \A id \in tick.failed :
            /\ \A res \in ResultOf(id) : res.error
            /\ \A i \in 1..Len(active_requests) : active_requests[i].id # id

\* C6: in a cycle where _prefill_and_decode runs and returns, an active
\* request without a Generation of its id gets the empty token with
\* last_token=False, is neither finished nor failed, and stays active.
C6_NoMatchKeepsOpen ==
    (Ran /\ Completed) =>
        \A i \in 1..Len(tick.joined) :
            ~HasMatch(tick.joined[i], tick.generations) =>
                /\ tick.token_calls[i] =
                       [id |-> tick.joined[i], text |-> "", last |-> FALSE]
                /\ tick.results[i] =
                       [id |-> tick.joined[i], data |-> Str(""),
                        last |-> FALSE, error |-> FALSE]
                /\ \E j \in 1..Len(active_requests) :
                       /\ active_requests[j].id = tick.joined[i]
                       /\ ~active_requests[j].last_token
                       /\ ~active_requests[j].error
C6_Witness ==
    /\ Ran /\ Completed /\ Len(tick.joined) = 2
    /\ HasMatch(tick.joined[1], tick.generations)
    /\ ~HasMatch(tick.joined[2], tick.generations)
    /\ Len(tick.generations) > 0

\* C7: a request with a matching Generation is marked as having produced its
\* last token exactly when that Generation's generated_text is not None, the
\* empty string included.
C7_LastIffGeneratedText ==
    Ran =>
        \A i \in 1..Len(tick.token_calls) :
            HasMatch(tick.token_calls[i].id, tick.generations) =>
                /\ tick.token_calls[i].last <=>
                       FirstMatch(tick.token_calls[i].id,
                                  tick.generations).generated_text.t # "none"
                /\ Completed => (tick.results[i].last <=> tick.token_calls[i].last)
C7_Witness ==
    /\ Ran /\ Completed
    /\ \E i \in 1..Len(tick.token_calls) :
          /\ HasMatch(tick.token_calls[i].id, tick.generations)
          /\ FirstMatch(tick.token_calls[i].id,
                        tick.generations).generated_text = Str("")
          /\ tick.results[i].last

\* C8: the token text given to a request with a matching Generation is ""
\* when the Generation is a special token and its token_text otherwise; a
\* special token finishes the request as any other does.
C8_SpecialTokenText ==
    Ran =>
        \A i \in 1..Len(tick.token_calls) :
            HasMatch(tick.token_calls[i].id, tick.generations) =>
                LET g == FirstMatch(tick.token_calls[i].id, tick.generations)
                IN  /\ g.token_is_special => tick.token_calls[i].text = ""
                    /\ ~g.token_is_special =>
                          tick.token_calls[i].text = g.token_text
                    /\ g.token_is_special =>
                          (tick.token_calls[i].last <=> g.generated_text # NoText)
                    /\ Completed =>
                          tick.results[i].data = Str(tick.token_calls[i].text)
C8_Witness ==
    /\ Ran /\ Completed
    /\ \E i \in 1..Len(tick.token_calls) :
          /\ HasMatch(tick.token_calls[i].id, tick.generations)
          /\ FirstMatch(tick.token_calls[i].id,
                        tick.generations).token_is_special
          /\ FirstMatch(tick.token_calls[i].id,
                        tick.generations).token_text = "b"
          /\ tick.results[i].data = Str("")

\* the value dict.get gives for each key of the native parameters
Supplied(param) ==
    [temperature        |-> Get(param, "temperature", FloatV(10)),
     repetition_penalty |-> Get(param, "repetition_penalty", FloatV(10)),
     top_k              |-> Get(param, "top_k", IntV(0)),
     top_p              |-> Get(param, "top_p", FloatV(10)),
     typical_p          |-> Get(param, "typical_p", FloatV(10)),
     do_sample          |-> Get(param, "do_sample", BoolV(0)),
     seed               |-> Get(param, "seed", IntV(0)),
     stop_sequences     |-> Get(param, "stop_sequences", ListV(0)),
     max_new_tokens     |-> Get(param, "max_new_tokens", IntV(30))]
SamplingKeys ==
    {"temperature", "repetition_penalty", "top_k", "top_p", "typical_p",
     "do_sample", "seed"}
StoppingKeys == {"stop_sequences", "max_new_tokens"}
TruncateAttached(i) ==
    /\ call.batch.requests[i].has_truncate <=>
           /\ "truncate" \in DOMAIN call.requests[i].parameters
           /\ call.requests[i].parameters["truncate"].t # "none"
    /\ call.batch.requests[i].has_truncate =>
           call.batch.requests[i].truncate =
               call.requests[i].parameters["truncate"]
\* int(v) stated on its own: the integer between 0 and v nearest to v
IsIntOf(x, v) ==
    /\ x.t = "int"
    /\ v.t \in {"int", "bool", "str"} => x.n = v.n
    /\ (v.t = "float" /\ v.n >= 0) => (10 * x.n <= v.n /\ v.n < 10 * x.n + 10)
    /\ (v.t = "float" /\ v.n < 0) => (10 * x.n >= v.n /\ v.n > 10 * x.n - 10)

\* C9 as stated: every sampling and stopping parameter of a native request
\* equals the supplied value, or the default when the key is absent, and a
\* truncate length is attached exactly for a non-null 'truncate'.
C9_ParametersAsSupplied ==
    (Returned /\ ~call.batch.is_none) =>
        \A i \in 1..Len(call.requests) :
            LET want == Supplied(call.requests[i].parameters)
                got  == call.batch.requests[i]
            IN  /\ \A k \in SamplingKeys : PyEq(got.parameters[k], want[k])
                /\ \A k \in StoppingKeys :
                       PyEq(got.stopping_parameters[k], want[k])
                /\ TruncateAttached(i)

\* C9 amended: as above, except that the seed is int() of the supplied value
\* (or 0), and that a call with a seed int() rejects raises.
C9_ParametersWithIntSeed ==
    /\ call.op = "preprocess_requests" =>
          (call.raised <=>
              \E i \in 1..Len(call.requests) :
                  Supplied(call.requests[i].parameters).seed.t
                      \in {"none", "text", "list"})
    /\ (Returned /\ ~call.batch.is_none) =>
        \A i \in 1..Len(call.requests) :
            LET want == Supplied(call.requests[i].parameters)
                got  == call.batch.requests[i]
            IN  /\ \A k \in SamplingKeys \ {"seed"} :
                       got.parameters[k] = want[k]
                /\ IsIntOf(got.parameters.seed, want.seed)
                /\ \A k \in StoppingKeys : got.stopping_parameters[k] = want[k]
                /\ got.inputs = call.requests[i].input_text
                /\ TruncateAttached(i)
C9_Witness ==
    /\ Returned /\ Len(call.requests) = 2
    /\ call.requests[1].parameters = ("seed" :> FloatV(-25))
    /\ call.batch.requests[1].parameters.seed = IntV(-2)
    /\ call.requests[2].parameters = AllParam
    /\ call.batch.requests[2].has_truncate

\* C10: a cycle in which _prefill_and_decode returns makes exactly one
\* set_next_token call per active request, in the insertion order of the
\* active collection; of several Generations with one request id the first
\* decides, and Generations of other ids change nothing.
C10_OneCallPerRequest ==
    (Ran /\ Completed) =>
        /\ tick.joined = tick.before \o tick.new_ids
        /\ Ids(tick.token_calls) = tick.joined
        /\ Ids(tick.results) = tick.joined
        /\ \A i \in 1..Len(tick.joined) :
              LET id == tick.joined[i]
                  mine == SelectSeq(tick.generations,
                                    LAMBDA g : g.request_id = id)
              IN  /\ mine # <<>> =>
                        /\ tick.results[i].data =
                               Str(IF mine[1].token_is_special THEN ""
                                   ELSE mine[1].token_text)
                        /\ tick.results[i].last = (mine[1].generated_text.t = "str")
                  /\ mine = <<>> =>
                        /\ tick.results[i].data = Str("")
                        /\ ~tick.results[i].last
C10_Witness ==
    /\ Ran /\ Completed /\ Len(tick.joined) = 2
    /\ Len(tick.generations) = 2
    /\ tick.generations[1].request_id = tick.joined[2]
    /\ tick.generations[2].request_id = tick.joined[2]
    /\ tick.generations[1].token_text # tick.generations[2].token_text
    /\ tick.token_calls[1].id = tick.joined[1]
====
